---- MODULE Spec2Model ----
(***************************************************************************)
(* Model of proxy.py: the retry engine retry_with_backoff and the handler  *)
(* proxy_request that drives it and relays the upstream response.          *)
(*                                                                         *)
(* Each handler is one coroutine on the asyncio event loop.  An action is  *)
(* the code a coroutine runs between two suspension points (await).        *)
(* Durations are in milliseconds.                                          *)
(***************************************************************************)
EXTENDS Integers, Sequences, FiniteSets, TLC

VARIABLES
    max_retries,    \* MAX_RETRIES, read once from the environment
    pc,             \* per handler: position of the coroutine
    attempt,        \* per handler: loop variable of retry_with_backoff
    hist,           \* per handler: outcomes of the calls of func(), in order
    slept,          \* per handler: arguments of the asyncio.sleep calls, in order
    result,         \* per handler: what retry_with_backoff returned or raised
    relayed,        \* per handler: emissions handed to the client so far
    client_status,  \* per handler: status code answered to the client, 0 = none yet
    clock_read,     \* per handler: the values int(time.time()) gave the engine, in order
    frame,          \* a tool call {function: {name, arguments}} met by a rewrite
    site_out,       \* per call site: what the site made of frame
    document,       \* the tool calls of one document, in order
    processed,      \* per call site: what the loop of the site made of document
    stream,         \* the bytes of one upstream body
    pos,            \* how many of them the relay has received
    nchunks,        \* in how many chunks
    buffer,         \* buffer of stream_generator
    emitted,        \* what stream_generator has yielded, in order
    rpc,            \* position of stream_generator
    inbound,        \* the request a client sent: path, query, body, content-length
    outbound,       \* target_path, query, body and content-length sent upstream
    wpc,            \* position of proxy_request before the engine is called
    rewrite_outcome, \* per rewrite of the request body: how its try block ended
    response,       \* the response the engine returned: status, route, content type, body
    reply,          \* the Response proxy_request returns for it: status and content
    npc             \* position of proxy_request after the engine returned

engineVars ==
    <<max_retries, pc, attempt, hist, slept, result, relayed, client_status,
      clock_read>>
frameVars == <<frame, site_out, document, processed>>
relayVars == <<stream, pos, nchunks, buffer, emitted, rpc>>
rewriteVars == <<inbound, outbound, wpc, rewrite_outcome>>
nonStreamVars == <<response, reply, npc>>
restVars == <<frameVars, relayVars, rewriteVars, nonStreamVars>>

vars == <<engineVars, restVars>>

(***************************************************************************)
(* Bounds of the model and constants of the program.                       *)
(***************************************************************************)
MaxRetriesBound == 2        \* max_retries ranges over 0..MaxRetriesBound
MaxChunks == 2              \* chunks relayed by one streamed response

RATE_LIMIT_WAIT == 30       \* seconds
BASE_RETRY_DELAY == 1       \* seconds
TIMEOUT == 300              \* seconds

Handlers == {"h1", "h2"}

\* int(time.time()) as read by the engine, in seconds.  The values are later
\* than one hour after the epoch, as any running clock is, and small enough for
\* current_time * 1000 to stay within TLC's integers.
Clock == {5000, 5003}

\* random.uniform(0, 1), in milliseconds
Jitter == {0, 400, 1000}

Max(a, b) == IF a >= b THEN a ELSE b
Min(a, b) == IF a <= b THEN a ELSE b

RECURSIVE SumSeq(_)
SumSeq(s) == IF s = <<>> THEN 0 ELSE Head(s) + SumSeq(Tail(s))

(***************************************************************************)
(* Outcomes of one call of func(): a response of the upstream, an          *)
(* httpx.RequestError, or another exception.  Of a response the engine     *)
(* reads the status, the body (whether it can be read and decoded as       *)
(* UTF-8, and whether it holds the phrase "Too many failed attempts") and  *)
(* the header x-ratelimit-reset-requests; the handler reads the content    *)
(* type.  id is the ordinal of the call that produced the outcome.         *)
(***************************************************************************)
NoOutcome ==
    [kind |-> "none", id |-> 0, status |-> 0, phrase |-> FALSE, utf8 |-> TRUE,
     hdr |-> "absent", hdr_val |-> 0, stream |-> FALSE]

Resp(st, ph, u8, hk, hv, sm) ==
    [kind |-> "response", id |-> 0, status |-> st, phrase |-> ph, utf8 |-> u8,
     hdr |-> hk, hdr_val |-> hv, stream |-> sm]

RequestError == [NoOutcome EXCEPT !.kind = "RequestError"]
OtherError == [NoOutcome EXCEPT !.kind = "Exception"]
UnexpectedEnd == [NoOutcome EXCEPT !.kind = "UnexpectedEnd"]

\* values of the header x-ratelimit-reset-requests that parse as an integer
HeaderInts == {1, 30, 3599, 5060}

RateLimited ==
    {Resp(429, ph, u8, "absent", 0, FALSE) : ph \in BOOLEAN, u8 \in BOOLEAN}
    \cup {Resp(429, FALSE, TRUE, hk, 0, FALSE) : hk \in {"empty", "text"}}
    \cup {Resp(429, FALSE, FALSE, "text", 0, FALSE)}
    \cup {Resp(429, TRUE, TRUE, "int", v, FALSE) : v \in {1}}
    \cup {Resp(429, FALSE, TRUE, "int", v, FALSE) : v \in HeaderInts}

Upstream ==
    {RequestError, OtherError}
    \cup {Resp(200, FALSE, TRUE, "absent", 0, sm) : sm \in BOOLEAN}
    \cup {Resp(404, FALSE, TRUE, "absent", 0, FALSE),
          Resp(503, FALSE, TRUE, "absent", 0, FALSE)}
    \cup RateLimited

\* header values for the specification of the header-based wait: negative,
\* zero, seconds remaining, timestamps in seconds before, at and after the
\* clock, timestamps in milliseconds, some of them an hour or more ahead
HeaderValues ==
    {0 - 5, 0, 1, 3599, 3600, 5003, 5060, 9000,
     5000000, 5003001, 5010000, 9000000}

UpstreamHeaders ==
    {Resp(429, FALSE, TRUE, "int", v, FALSE) : v \in HeaderValues}
    \cup {Resp(200, FALSE, TRUE, "absent", 0, FALSE)}

\* the smaller upstream of the specification with two concurrent handlers
UpstreamSmall ==
    {RequestError,
     Resp(200, FALSE, TRUE, "absent", 0, TRUE),
     Resp(429, TRUE, TRUE, "absent", 0, FALSE),
     Resp(429, FALSE, TRUE, "int", 30, FALSE)}

(***************************************************************************)
(* retry_with_backoff: the pure parts.                                     *)
(***************************************************************************)

\* for attempt in range(max_retries + 1): the next value of the loop variable
NextAttemptStuck(a) == a
NextAttempt(a) == a + 1

\* range(max_retries + 1) still yields a
InRangeExclusive(a) == a < max_retries
InRange(a) == a <= max_retries

\* if attempt < max_retries
CanRetryFinalToo(a) == a <= max_retries
CanRetry(a) == a < max_retries

\* elif response.status_code >= 500
IsServerErrorOrClientError(st) == st >= 400
IsServerError(st) == st >= 500

\* "Too many failed attempts" in error_text, error_text the decoded body
HasLockoutPhrase(out) == out.utf8 /\ out.phrase

\* await asyncio.sleep(RATE_LIMIT_WAIT)
LockoutDelayBase == BASE_RETRY_DELAY * 1000
LockoutDelay == RATE_LIMIT_WAIT * 1000

\* the wait computed from the header value reset_time at time current_time, seconds
wait_time_absolute(reset_time, current_time) ==
    Min(Max(1, reset_time - current_time), 3600)
wait_time_no_division(reset_time, current_time) ==
    LET w == IF reset_time > current_time * 1000
                THEN Max(1, reset_time - current_time)
                ELSE IF reset_time < 3600
                        THEN Max(1, reset_time)
                        ELSE Max(1, reset_time - current_time)
    IN  Min(w, 3600)
wait_time_no_floor(reset_time, current_time) ==
    LET w == IF reset_time > current_time * 1000
                THEN (reset_time \div 1000) - current_time
                ELSE IF reset_time < 3600
                        THEN reset_time
                        ELSE reset_time - current_time
    IN  Min(w, 3600)
wait_time(reset_time, current_time) ==
    LET w == IF reset_time > current_time * 1000
                THEN Max(1, (reset_time \div 1000) - current_time)
                ELSE IF reset_time < 3600
                        THEN Max(1, reset_time)
                        ELSE Max(1, reset_time - current_time)
    IN  Min(w, 3600)

\* delay = base_delay * (2**attempt) + random.uniform(0, 1)
delay_linear(a, jitter) == BASE_RETRY_DELAY * 1000 * (2 * a) + jitter
delay(a, jitter) == BASE_RETRY_DELAY * 1000 * (2 ^ a) + jitter

\* return response: the response of the current iteration
ReturnedFirst(h) == h[1]
Returned(h) == h[Len(h)]

DoSleep(d) == [act |-> "sleep", d |-> d]
DoReturn == [act |-> "return", d |-> 0]
DoRaise == [act |-> "raise", d |-> 0]

\* the iteration reaches current_time = int(time.time()): a 429 whose body
\* decoded and holds no lockout phrase, with a header that int() accepts
ReadsClock(out) ==
    /\ out.kind = "response"
    /\ out.status = 429
    /\ out.utf8
    /\ ~out.phrase
    /\ out.hdr = "int"

\* the value read, with the call of func() it belongs to
Reading(out, now) == [id |-> out.id, current_time |-> now]

\* the body of one iteration after func() gave `out`: what the engine does next
VerdictHeaderFirst(out, a, now, jitter) ==
    IF out.kind = "RequestError"
    THEN IF CanRetry(a) THEN DoSleep(delay(a, jitter)) ELSE DoRaise
    ELSE IF out.kind = "Exception"
    THEN DoRaise
    ELSE IF out.status = 429
    THEN IF ~out.utf8
         THEN DoReturn
         ELSE IF out.hdr = "int" /\ CanRetry(a)
         THEN DoSleep(wait_time(out.hdr_val, now) * 1000)
         ELSE IF HasLockoutPhrase(out)
         THEN IF CanRetry(a) THEN DoSleep(LockoutDelay) ELSE DoReturn
         ELSE IF CanRetry(a) THEN DoSleep(delay(a, jitter)) ELSE DoReturn
    ELSE IF IsServerError(out.status)
    THEN IF CanRetry(a) THEN DoSleep(delay(a, jitter)) ELSE DoReturn
    ELSE DoReturn
VerdictReturnsOnBadHeader(out, a, now, jitter) ==
    IF out.kind = "RequestError"
    THEN IF CanRetry(a) THEN DoSleep(delay(a, jitter)) ELSE DoRaise
    ELSE IF out.kind = "Exception"
    THEN DoRaise
    ELSE IF out.status = 429
    THEN IF ~out.utf8
         THEN DoReturn
         ELSE IF HasLockoutPhrase(out)
         THEN IF CanRetry(a) THEN DoSleep(LockoutDelay) ELSE DoReturn
         ELSE IF out.hdr = "int" /\ CanRetry(a)
         THEN DoSleep(wait_time(out.hdr_val, now) * 1000)
         ELSE IF out.hdr = "text"
         THEN DoReturn
         ELSE IF CanRetry(a) THEN DoSleep(delay(a, jitter)) ELSE DoReturn
    ELSE IF IsServerError(out.status)
    THEN IF CanRetry(a) THEN DoSleep(delay(a, jitter)) ELSE DoReturn
    ELSE DoReturn
Verdict(out, a, now, jitter) ==
    IF out.kind = "RequestError"
    THEN IF CanRetry(a) THEN DoSleep(delay(a, jitter)) ELSE DoRaise
    ELSE IF out.kind = "Exception"
    THEN DoRaise
    ELSE IF out.status = 429
    THEN IF ~out.utf8
         THEN DoReturn
         ELSE IF HasLockoutPhrase(out)
         THEN IF CanRetry(a) THEN DoSleep(LockoutDelay) ELSE DoReturn
         ELSE IF out.hdr = "int" /\ CanRetry(a)
         THEN DoSleep(wait_time(out.hdr_val, now) * 1000)
         ELSE IF CanRetry(a) THEN DoSleep(delay(a, jitter)) ELSE DoReturn
    ELSE IF IsServerError(out.status)
    THEN IF CanRetry(a) THEN DoSleep(delay(a, jitter)) ELSE DoReturn
    ELSE DoReturn

(***************************************************************************)
(* Scheduling: await asyncio.sleep suspends the calling coroutine only.    *)
(***************************************************************************)
RunnableBlocking(r) == \A o \in Handlers \ {r} : pc[o] # "sleep"
Runnable(r) == TRUE

\* where the handler goes when the upstream stream breaks during the relay
AfterStreamFailureRetry == "send"
AfterStreamFailure == "aborted"

\* is_streaming = "text/event-stream" in content_type or "stream" in content_type
is_streaming(out) == out.stream

(***************************************************************************)
(* Actions.                                                                *)
(***************************************************************************)

\* response = await func()
Send(r, upstream) ==
    /\ pc[r] = "send"
    /\ Runnable(r)
    /\ InRange(attempt[r])
    /\ \E out \in upstream :
         hist' = [hist EXCEPT ![r] = Append(@, [out EXCEPT !.id = Len(hist[r]) + 1])]
    /\ pc' = [pc EXCEPT ![r] = "got"]
    /\ UNCHANGED <<max_retries, attempt, slept, result, relayed, client_status, clock_read>>
    /\ UNCHANGED restVars

\* the rest of the iteration, up to the sleep, the return or the raise
Classify(r, clock, jitters) ==
    /\ pc[r] = "got"
    /\ Runnable(r)
    /\ \E now \in clock, j \in jitters :
         LET out == hist[r][Len(hist[r])]
             v == Verdict(out, attempt[r], now, j)
         IN  /\ CASE v.act = "sleep" ->
                    /\ slept' = [slept EXCEPT ![r] = Append(@, v.d)]
                    /\ pc' = [pc EXCEPT ![r] = "sleep"]
                    /\ UNCHANGED result
               [] v.act = "return" ->
                    /\ result' = [result EXCEPT ![r] = Returned(hist[r])]
                    /\ pc' = [pc EXCEPT ![r] = "returned"]
                    /\ UNCHANGED slept
               [] v.act = "raise" ->
                    /\ result' = [result EXCEPT ![r] = Returned(hist[r])]
                    /\ pc' = [pc EXCEPT ![r] = "raised"]
                    /\ UNCHANGED slept
             /\ clock_read' = IF ReadsClock(out)
                               THEN [clock_read EXCEPT ![r] = Append(@, Reading(out, now))]
                               ELSE clock_read
    /\ UNCHANGED <<max_retries, attempt, hist, relayed, client_status>>
    /\ UNCHANGED restVars

\* asyncio.sleep returns; continue: the loop takes the next attempt, or ends
Wake(r) ==
    /\ pc[r] = "sleep"
    /\ attempt' = [attempt EXCEPT ![r] = NextAttempt(@)]
    /\ IF InRange(NextAttempt(attempt[r]))
       THEN /\ pc' = [pc EXCEPT ![r] = "send"]
            /\ UNCHANGED result
       ELSE /\ pc' = [pc EXCEPT ![r] = "raised"]
            /\ result' = [result EXCEPT ![r] = UnexpectedEnd]
    /\ UNCHANGED <<max_retries, hist, slept, relayed, client_status, clock_read>>
    /\ UNCHANGED restVars

\* not streaming: content = await response.aread(); return Response(...)
Respond(r) ==
    /\ pc[r] = "returned"
    /\ Runnable(r)
    /\ ~is_streaming(result[r])
    /\ client_status' = [client_status EXCEPT ![r] = result[r].status]
    /\ relayed' = [relayed EXCEPT ![r] = 1]
    /\ pc' = [pc EXCEPT ![r] = "done"]
    /\ UNCHANGED <<max_retries, attempt, hist, slept, result, clock_read>>
    /\ UNCHANGED restVars

\* streaming: return StreamingResponse(stream_generator(), ...)
StartStream(r) ==
    /\ pc[r] = "returned"
    /\ Runnable(r)
    /\ is_streaming(result[r])
    /\ client_status' = [client_status EXCEPT ![r] = result[r].status]
    /\ pc' = [pc EXCEPT ![r] = "relay"]
    /\ UNCHANGED <<max_retries, attempt, hist, slept, result, relayed, clock_read>>
    /\ UNCHANGED restVars

\* async for chunk in response.aiter_bytes(): ... yield
StreamChunk(r) ==
    /\ pc[r] = "relay"
    /\ Runnable(r)
    /\ relayed[r] < MaxChunks
    /\ relayed' = [relayed EXCEPT ![r] = @ + 1]
    /\ UNCHANGED <<max_retries, pc, attempt, hist, slept, result, client_status, clock_read>>
    /\ UNCHANGED restVars

\* the upstream stream is exhausted
StreamEnd(r) ==
    /\ pc[r] = "relay"
    /\ Runnable(r)
    /\ pc' = [pc EXCEPT ![r] = "done"]
    /\ UNCHANGED <<max_retries, attempt, hist, slept, result, relayed, client_status, clock_read>>
    /\ UNCHANGED restVars

\* response.aiter_bytes() raises inside the generator: nothing catches it
StreamFail(r) ==
    /\ pc[r] = "relay"
    /\ Runnable(r)
    /\ pc' = [pc EXCEPT ![r] = AfterStreamFailure]
    /\ UNCHANGED <<max_retries, attempt, hist, slept, result, relayed, client_status, clock_read>>
    /\ UNCHANGED restVars

\* except httpx.RequestError: 502; except Exception: 500
ErrorStatusAlways500(kind) == 500
ErrorStatus(kind) == IF kind = "RequestError" THEN 502 ELSE 500

HandleError(r) ==
    /\ pc[r] = "raised"
    /\ Runnable(r)
    /\ client_status' = [client_status EXCEPT ![r] = ErrorStatus(result[r].kind)]
    /\ relayed' = [relayed EXCEPT ![r] = 1]
    /\ pc' = [pc EXCEPT ![r] = "done"]
    /\ UNCHANGED <<max_retries, attempt, hist, slept, result, clock_read>>
    /\ UNCHANGED restVars

(***************************************************************************)
(* Tool calls.  A tool call is {function: {name, arguments}}; arguments is *)
(* a string that holds a JSON document of its own.  Of that string the     *)
(* model keeps what json.loads makes of it and whether its text is the one *)
(* json.dumps would write (fmt = "dumps") or another layout of the same    *)
(* document (fmt = "compact").                                             *)
(***************************************************************************)

\* JSON values of a field: the integer n, the string int() reads as n, and a
\* string int() rejects
IntVal(n) == [ty |-> "int", num |-> TRUE, n |-> n]
NumStr(n) == [ty |-> "str", num |-> TRUE, n |-> n]
WordStr == [ty |-> "str", num |-> FALSE, n |-> 0]
PathVal == [ty |-> "path", num |-> FALSE, n |-> 0]

Field(k, v) == [key |-> k, val |-> v]

\* an arguments string: a JSON object, an array, a number, text that is not
\* JSON (a fragment of a streamed document), or the empty string
ArgsString(kind, fields, fmt) == [kind |-> kind, fields |-> fields, fmt |-> fmt]

ToolCall(name, args) == [name |-> name, args |-> args]

\* json.dumps(args_dict)
json_dumps_args(fields) == ArgsString("object", fields, "dumps")

\* "k" in args_dict and isinstance(args_dict["k"], str)
IsStrField(fields, k) ==
    \E i \in DOMAIN fields : fields[i].key = k /\ fields[i].val.ty = "str"

\* int(args_dict["k"]) does not raise ValueError
IntAccepts(fields, k) ==
    \A i \in DOMAIN fields : fields[i].key = k => fields[i].val.num

\* args_dict["k"] = int(args_dict["k"])
SetInt(fields, k) ==
    [i \in DOMAIN fields |->
        IF fields[i].key = k
        THEN Field(k, IntVal(fields[i].val.n))
        ELSE fields[i]]

\* one of the two conversions, on the state c = [exc, modified, fields]
ConvertFieldPartial(c, k) ==
    IF c.exc # "none" \/ ~IsStrField(c.fields, k)
    THEN c
    ELSE IF IntAccepts(c.fields, k)
    THEN [exc |-> "none", modified |-> TRUE, fields |-> SetInt(c.fields, k)]
    ELSE c
ConvertField(c, k) ==
    IF c.exc # "none" \/ ~IsStrField(c.fields, k)
    THEN c
    ELSE IF IntAccepts(c.fields, k)
    THEN [exc |-> "none", modified |-> TRUE, fields |-> SetInt(c.fields, k)]
    ELSE [c EXCEPT !.exc = "ValueError"]

\* the two conversions in their order: start_line, then end_line
ConvertStartLineOnly(fields) ==
    ConvertField([exc |-> "none", modified |-> FALSE, fields |-> fields], "start_line")
ConvertLines(fields) ==
    ConvertField(
        ConvertField([exc |-> "none", modified |-> FALSE, fields |-> fields],
                     "start_line"),
        "end_line")

\* what a call site made of a tool call: whether an exception left the try of
\* the tool call, the arguments string the tool call holds afterwards, whether
\* the string was replaced
SiteResult(status, args, coerced) ==
    [status |-> status, args |-> args, coerced |-> coerced]

NoResult == SiteResult("none", ArgsString("empty", <<>>, "dumps"), FALSE)

\* tc_name == "read_file" and tc_args and "function" in tool_call
IsReadFileWithArgs(tc) == tc.name = "read_file" /\ tc.args.kind # "empty"

\* from modified = False to the assignment of tool_call["function"]["arguments"]
AfterConversionStartOnly(tc) ==
    LET c == ConvertStartLineOnly(tc.args.fields) IN
    IF c.exc = "none" /\ c.modified
    THEN SiteResult("ok", json_dumps_args(c.fields), TRUE)
    ELSE SiteResult("ok", tc.args, FALSE)
AfterConversion(tc) ==
    LET c == ConvertLines(tc.args.fields) IN
    IF c.exc = "none" /\ c.modified
    THEN SiteResult("ok", json_dumps_args(c.fields), TRUE)
    ELSE SiteResult("ok", tc.args, FALSE)

\* the request rewriter, lines 308-367: args_dict.get(...) is logged before the
\* conversion, which raises AttributeError unless args_dict is a dict
RequestToolCall(tc) ==
    IF ~IsReadFileWithArgs(tc) THEN SiteResult("ok", tc.args, FALSE)
    ELSE IF tc.args.kind = "invalid" THEN SiteResult("ok", tc.args, FALSE)
    ELSE IF tc.args.kind # "object" THEN SiteResult("raised", tc.args, FALSE)
    ELSE AfterConversion(tc)

\* the stream relay, lines 516-599: "start_line" in args_dict is False of a
\* list and raises TypeError of a number
StreamToolCall(tc) ==
    IF ~IsReadFileWithArgs(tc) THEN SiteResult("ok", tc.args, FALSE)
    ELSE IF tc.args.kind = "invalid" THEN SiteResult("ok", tc.args, FALSE)
    ELSE IF tc.args.kind = "list" THEN SiteResult("ok", tc.args, FALSE)
    ELSE IF tc.args.kind # "object" THEN SiteResult("raised", tc.args, FALSE)
    ELSE AfterConversion(tc)

\* the non-streaming relay, lines 683-740
NonStreamToolCall(tc) ==
    IF ~IsReadFileWithArgs(tc) THEN SiteResult("ok", tc.args, FALSE)
    ELSE IF tc.args.kind = "invalid" THEN SiteResult("ok", tc.args, FALSE)
    ELSE IF tc.args.kind = "list" THEN SiteResult("ok", tc.args, FALSE)
    ELSE IF tc.args.kind # "object" THEN SiteResult("raised", tc.args, FALSE)
    ELSE AfterConversion(tc)

Sites == {"request", "stream", "nonstream"}

\* the fields of the arguments documents: start_line and end_line absent, an
\* integer, the text of an integer or other text; path before or after them
LineValues(n) == {IntVal(n), NumStr(n), WordStr}

ObjectFields ==
    LET lines ==
            {<<>>}
            \cup {<<Field("start_line", v)>> : v \in LineValues(5)}
            \cup {<<Field("end_line", v)>> : v \in LineValues(10)}
            \cup {<<Field("start_line", v), Field("end_line", w)>> :
                    v \in LineValues(5), w \in LineValues(10)}
            \cup {<<Field("end_line", w), Field("start_line", v)>> :
                    v \in {NumStr(5)}, w \in {NumStr(10), IntVal(10)}}
    IN  lines
        \cup {<<Field("path", PathVal)>> \o l : l \in lines}
        \cup {l \o <<Field("path", PathVal)>> : l \in lines \ {<<>>}}

ArgsStrings ==
    {ArgsString("object", f, fmt) : f \in ObjectFields, fmt \in {"dumps", "compact"}}
    \cup {ArgsString(k, <<>>, "compact") : k \in {"list", "number", "invalid", "empty"}}

ToolCalls == {ToolCall(n, a) : n \in {"read_file", "other"}, a \in ArgsStrings}

\* what the loop of a call site made of a document: whether an exception
\* left the loop, and the tool calls the site hands on
Processed(exc, tool_calls) == [ran |-> TRUE, exc |-> exc, tool_calls |-> tool_calls]

NoProcessed == [ran |-> FALSE, exc |-> FALSE, tool_calls |-> <<>>]

DocumentsIdle ==
    /\ document = <<>>
    /\ processed = [s \in Sites |-> NoProcessed]

FramesIdle ==
    /\ frame = ToolCall("other", ArgsString("empty", <<>>, "dumps"))
    /\ site_out = [s \in Sites |-> NoResult]
    /\ DocumentsIdle

\* one call site meets the tool call
RequestSite ==
    /\ site_out["request"] = NoResult
    /\ site_out' = [site_out EXCEPT !["request"] = RequestToolCall(frame)]
    /\ UNCHANGED <<frame, document, processed>>
    /\ UNCHANGED <<engineVars, relayVars, rewriteVars, nonStreamVars>>

StreamSite ==
    /\ site_out["stream"] = NoResult
    /\ site_out' = [site_out EXCEPT !["stream"] = StreamToolCall(frame)]
    /\ UNCHANGED <<frame, document, processed>>
    /\ UNCHANGED <<engineVars, relayVars, rewriteVars, nonStreamVars>>

NonStreamSite ==
    /\ site_out["nonstream"] = NoResult
    /\ site_out' = [site_out EXCEPT !["nonstream"] = NonStreamToolCall(frame)]
    /\ UNCHANGED <<frame, document, processed>>
    /\ UNCHANGED <<engineVars, relayVars, rewriteVars, nonStreamVars>>

(***************************************************************************)
(* The stream relay, stream_generator.  The bytes of the upstream body are *)
(* kept by kind: the newline, the whitespace strip() removes, the marker   *)
(* "data:", the sentinel "[DONE]", the braces of a JSON object, a member   *)
(* of it ("m", ASCII text), a tool call of the event with the tool call it *)
(* holds, the two bytes of one two-byte UTF-8 character ("hi", "lo"), and  *)
(* a byte no UTF-8 text contains ("bad").  Decoded text has the character  *)
(* "uchar" where the bytes had hi, lo; json.dumps writes it as the ASCII   *)
(* escape "esc".                                                           *)
(***************************************************************************)

MaxLines == 2
MaxRelayChunks == 3

NoToolCall == ToolCall("", ArgsString("empty", <<>>, "dumps"))

Byte(t) == [t |-> t, tc |-> NoToolCall]
ToolCallText(tc) == [t |-> "tc", tc |-> tc]

NL == Byte("nl")

\* "".join of the pieces
RECURSIVE Flatten(_)
Flatten(pieces) ==
    IF pieces = <<>> THEN <<>> ELSE Head(pieces) \o Flatten(Tail(pieces))

\* chunk.decode("utf-8") does not raise UnicodeDecodeError
DecodeOK(chunk) ==
    \A i \in DOMAIN chunk :
        /\ chunk[i].t # "bad"
        /\ chunk[i].t = "hi" => (i < Len(chunk) /\ chunk[i + 1].t = "lo")
        /\ chunk[i].t = "lo" => (i > 1 /\ chunk[i - 1].t = "hi")

\* chunk.decode("utf-8")
Decoded(chunk) ==
    LET rest == SelectSeq(chunk, LAMBDA b : b.t # "hi") IN
    [i \in DOMAIN rest |-> IF rest[i].t = "lo" THEN Byte("uchar") ELSE rest[i]]

\* text.encode("utf-8")
RECURSIVE Encoded(_)
Encoded(text) ==
    IF text = <<>> THEN <<>>
    ELSE IF Head(text).t = "uchar"
    THEN <<Byte("hi"), Byte("lo")>> \o Encoded(Tail(text))
    ELSE <<Head(text)>> \o Encoded(Tail(text))

IsSpace(c) == c.t \in {"sp", "cr"}

\* line.strip()
RECURSIVE Strip(_)
Strip(line) ==
    IF line = <<>> THEN <<>>
    ELSE IF IsSpace(Head(line)) THEN Strip(Tail(line))
    ELSE IF IsSpace(line[Len(line)]) THEN Strip(SubSeq(line, 1, Len(line) - 1))
    ELSE line

DoneLine == <<Byte("data:"), Byte("sp"), Byte("[DONE]")>>

\* line.startswith("data: ") and line != "data: [DONE]"
IsDataLine(line) ==
    /\ Len(line) >= 2
    /\ line[1].t = "data:"
    /\ line[2].t = "sp"
    /\ line # DoneLine

\* data_str = line[6:]
data_str(line) == SubSeq(line, 3, Len(line))

\* json.loads(data_str) does not raise: an object, JSON whitespace around it
\* and between its members
IsJson(text) ==
    LET t == Strip(text) IN
    /\ Len(t) >= 2
    /\ t[1].t = "{"
    /\ t[Len(t)].t = "}"
    /\ \A i \in 2..(Len(t) - 1) : t[i].t \in {"tc", "m", "uchar", "esc", "sp", "cr"}

\* data = json.loads(data_str): the members of the object
json_loads(text) ==
    LET t == Strip(text) IN
    SelectSeq(SubSeq(t, 2, Len(t) - 1), LAMBDA c : ~IsSpace(c))

\* json.dumps(data): no whitespace of the input, non-ASCII characters escaped
json_dumps(data) ==
    <<Byte("{")>>
    \o [i \in DOMAIN data |-> IF data[i].t = "uchar" THEN Byte("esc") ELSE data[i]]
    \o <<Byte("}")>>

\* the loop over the tool calls of the event, lines 476-617, from the i-th
\* member on; st = [data, line, exc]
RECURSIVE Inspect(_, _)
Inspect(st, i) ==
    IF i > Len(st.data) THEN st
    ELSE IF st.data[i].t # "tc" THEN Inspect(st, i + 1)
    ELSE LET tc == st.data[i].tc
             r == StreamToolCall(tc)
         IN  IF r.status = "raised" THEN [st EXCEPT !.exc = TRUE]
             ELSE IF r.coerced
             THEN LET d == [st.data EXCEPT ![i] = ToolCallText(ToolCall(tc.name, r.args))]
                  IN  Inspect([data |-> d,
                               line |-> <<Byte("data:"), Byte("sp")>> \o json_dumps(d),
                               exc |-> FALSE],
                              i + 1)
             ELSE Inspect(st, i + 1)

\* except Exception (618-621), then the yield of 624: the lines yielded for a
\* line whose inspection raised
OnInspectionErrorDropLine(line) == <<>>
OnInspectionError(line) == <<line>>

\* lines 464-624 for one line of the buffer: the lines yielded for it
ProcessLine(raw) ==
    LET line == Strip(raw) IN
    IF ~IsDataLine(line) THEN <<line>>
    ELSE IF ~IsJson(data_str(line)) THEN OnInspectionError(line)
    ELSE LET st == Inspect([data |-> json_loads(data_str(line)),
                            line |-> line, exc |-> FALSE], 1)
         IN  IF st.exc THEN OnInspectionError(st.line) ELSE <<st.line>>

HasNewline(text) == \E i \in DOMAIN text : text[i].t = "nl"

FirstNewline(text) ==
    CHOOSE i \in DOMAIN text :
        text[i].t = "nl" /\ \A j \in 1..(i - 1) : text[j].t # "nl"

\* (line + "\n").encode("utf-8") for each line yielded
YieldLines(lines) == [i \in DOMAIN lines |-> Encoded(lines[i] \o <<NL>>)]

\* while "\n" in buffer: ...; d = [buffer, out]
RECURSIVE Drain(_)
Drain(d) ==
    IF ~HasNewline(d.buffer) THEN d
    ELSE LET i == FirstNewline(d.buffer) IN
         Drain([buffer |-> SubSeq(d.buffer, i + 1, Len(d.buffer)),
                out |-> d.out \o YieldLines(ProcessLine(SubSeq(d.buffer, 1, i - 1)))])

\* the tool calls the events of the streams carry
ReadFile5 == ToolCall("read_file", ArgsString("object", <<Field("start_line", NumStr(5))>>, "compact"))
ReadFileInt == ToolCall("read_file", ArgsString("object", <<Field("start_line", IntVal(5))>>, "compact"))
ReadFileNumber == ToolCall("read_file", ArgsString("number", <<>>, "compact"))
Other5 == ToolCall("other", ArgsString("object", <<Field("start_line", NumStr(5))>>, "compact"))

Event(members) == <<Byte("data:"), Byte("sp"), Byte("{")>> \o members \o <<Byte("}")>>

\* the lines of the upstream bodies, without their newline
UpstreamLines ==
    { <<>>,
      <<Byte("m")>>,
      <<Byte("m"), Byte("cr")>>,
      <<Byte("hi"), Byte("lo")>>,
      <<Byte("bad")>>,
      DoneLine,
      DoneLine \o <<Byte("cr")>>,
      <<Byte("data:"), Byte("sp"), Byte("m")>>,
      Event(<<ToolCallText(ReadFile5)>>),
      Event(<<ToolCallText(ReadFileInt)>>),
      Event(<<ToolCallText(ReadFileInt)>>) \o <<Byte("cr")>>,
      Event(<<ToolCallText(ReadFileNumber)>>),
      Event(<<ToolCallText(Other5)>>),
      Event(<<Byte("hi"), Byte("lo"), ToolCallText(ReadFile5)>>),
      Event(<<Byte("sp"), ToolCallText(ReadFileInt)>>),
      Event(<<ToolCallText(ReadFile5), ToolCallText(ReadFileNumber)>>) }

\* bodies of n lines, each ended by its newline
RECURSIVE Bodies(_)
Bodies(n) ==
    IF n = 0 THEN {<<>>}
    ELSE {l \o <<NL>> \o b : l \in UpstreamLines, b \in Bodies(n - 1)}

\* what a body may end with after its last newline, besides nothing or plain
\* text: text with whitespace around it, an event that no newline ended
UpstreamTails ==
    { <<Byte("sp"), Byte("m"), Byte("cr")>>,
      Event(<<ToolCallText(ReadFile5)>>) }

\* the upstream bodies: up to MaxLines lines, then nothing or text without its
\* newline; one line, then one of the other tails
UpstreamBodies ==
    {b \o t : b \in UNION {Bodies(n) : n \in 1..MaxLines},
              t \in {<<>>, <<Byte("m")>>}}
    \cup {b \o t : b \in Bodies(1), t \in UpstreamTails}

RelayIdle ==
    /\ stream = <<>>
    /\ pos = 0
    /\ nchunks = 0
    /\ buffer = <<>>
    /\ emitted = <<>>
    /\ rpc = "absent"

\* one iteration of async for chunk in response.aiter_bytes(): the next k
\* bytes of the body arrive as one chunk
RelayChunk ==
    /\ rpc = "reading"
    /\ pos < Len(stream)
    /\ \E k \in 1..(Len(stream) - pos) :
        /\ (nchunks + 1 = MaxRelayChunks) => (k = Len(stream) - pos)
        /\ LET chunk == SubSeq(stream, pos + 1, pos + k) IN
           IF ~DecodeOK(chunk)
           THEN /\ emitted' = Append(emitted, chunk)
                /\ buffer' = buffer
           ELSE LET d == Drain([buffer |-> buffer \o Decoded(chunk), out |-> <<>>]) IN
                /\ emitted' = emitted \o d.out
                /\ buffer' = d.buffer
        /\ pos' = pos + k
    /\ nchunks' = nchunks + 1
    /\ UNCHANGED <<stream, rpc, engineVars, frameVars, rewriteVars, nonStreamVars>>

\* if buffer: yield buffer.encode("utf-8") (627-628): what is yielded once
\* the chunks are exhausted
FlushAsLine(text) == IF text # <<>> THEN YieldLines(ProcessLine(text)) ELSE <<>>
Flush(text) == IF text # <<>> THEN <<Encoded(text)>> ELSE <<>>

\* the body has ended
RelayEnd ==
    /\ rpc = "reading"
    /\ pos = Len(stream)
    /\ emitted' = emitted \o Flush(buffer)
    /\ rpc' = "done"
    /\ UNCHANGED <<stream, pos, nchunks, buffer, engineVars, frameVars, rewriteVars, nonStreamVars>>

(***************************************************************************)
(* The request side of proxy_request, lines 186-435: the mapping of the    *)
(* path, the rewrite of a chat-completions body, the rewrite of an         *)
(* embeddings body.  A body is its bytes by what json.loads makes of them: *)
(* nothing, no JSON, an array, or an object with its top-level keys; fmt   *)
(* says whether the text is laid out as json.dumps lays it out.            *)
(***************************************************************************)

UnsupportedParams == {"prompt_cache_key", "logprobs", "top_logprobs"}

\* a JSON object: the unsupported parameters it has, parallel_tool_calls
\* ("absent", "true", "false", "nonbool"), tools ("absent", "list", "null",
\* "function_not_dict"), whether it has messages and the tool calls of the
\* messages, encoding_format ("absent", "base64", "float", "other"), and
\* the key model, which every document has
Doc(u, p, t, hm, m, e) ==
    [unsupported |-> u, parallel_tool_calls |-> p, tools |-> t,
     has_messages |-> hm, messages |-> m, encoding_format |-> e, model |-> "m"]

NoDoc == Doc({}, "absent", "absent", FALSE, <<>>, "absent")

Body(kind, doc, fmt) == [kind |-> kind, doc |-> doc, fmt |-> fmt]

\* json.dumps(body_json).encode("utf-8")
json_dumps_body(doc) == Body("object", doc, "dumps")

\* len(tc_args)
ArgsLen(args) ==
    IF args.kind # "object" THEN 2
    ELSE 2 + SumSeq([i \in DOMAIN args.fields |->
                        IF args.fields[i].val.ty = "int" THEN 4 ELSE 6])
           + (IF args.fmt = "dumps" THEN Len(args.fields) ELSE 0)

\* len(body)
BodyLen(body) ==
    IF body.kind = "empty" THEN 0
    ELSE IF body.kind # "object" THEN 3
    ELSE LET d == body.doc
             keys == 1 + Cardinality(d.unsupported)
                       + (IF d.parallel_tool_calls = "absent" THEN 0 ELSE 1)
                       + (IF d.tools = "absent" THEN 0 ELSE 1)
                       + (IF d.has_messages THEN 1 ELSE 0)
                       + (IF d.encoding_format = "absent" THEN 0 ELSE 1)
         IN  2 + 8 * keys
               + SumSeq([i \in DOMAIN d.messages |-> ArgsLen(d.messages[i].args)])
               + (IF body.fmt = "dumps" THEN 2 * keys ELSE 0)

\* path.startswith("api/") and OPENAI_BASE_URL.endswith("/api/v1"); path[4:]
TargetPathAnyBase(path, base_v1) ==
    IF Len(path) >= 2 /\ path[1] = "api" THEN Tail(path) ELSE path
TargetPath(path, base_v1) ==
    IF Len(path) >= 2 /\ path[1] = "api" /\ base_v1 THEN Tail(path) ELSE path

\* target_url = f"{OPENAI_BASE_URL}/{target_path}", then "?" and the query
\* string if there is one; the URL as the sequence of its parts
target_url(target_path, query_params) ==
    <<"OPENAI_BASE_URL", "/">> \o target_path
        \o (IF query_params # "" THEN <<"?", query_params>> ELSE <<>>)

\* "chat/completions" in path
IsChatPath(path) ==
    \E i \in 1..(Len(path) - 1) : path[i] = "chat" /\ path[i + 1] = "completions"

\* path == "embeddings"
IsEmbeddingsPath(path) == path = <<"embeddings">>

\* the loop over the tool calls of the messages, 281-373, from the i-th on;
\* st = [exc, messages]
RECURSIVE RewriteMessages(_, _)
RewriteMessages(st, i) ==
    IF i > Len(st.messages) THEN st
    ELSE LET r == RequestToolCall(st.messages[i]) IN
         IF r.status = "raised" THEN [st EXCEPT !.exc = TRUE]
         ELSE RewriteMessages(
                [st EXCEPT !.messages[i] = ToolCall(st.messages[i].name, r.args)],
                i + 1)

\* lines 223-228: parallel_tool_calls after the cleanup
CleanParallelToolCallsAlways(p) == "absent"
CleanParallelToolCalls(p) == IF p = "nonbool" THEN "absent" ELSE p

\* lines 216-397 on a body that is present: whether an exception reached the
\* except of 404, and the body afterwards
ChatRewrite(body) ==
    LET failed == [exc |-> TRUE, body |-> body] IN
    IF body.kind # "object" THEN failed
    ELSE IF body.doc.tools \in {"null", "function_not_dict"} THEN failed
    ELSE LET d == body.doc
             ms == RewriteMessages([exc |-> FALSE, messages |-> d.messages], 1)
         IN  IF ms.exc THEN failed
             ELSE [exc |-> FALSE,
                   body |-> json_dumps_body(
                        [d EXCEPT !.unsupported = {},
                                  !.parallel_tool_calls = CleanParallelToolCalls(@),
                                  !.messages = ms.messages])]

\* lines 412-424 on a body that is present
EmbeddingsRewrite(body) ==
    IF body.kind # "object"
    THEN [exc |-> TRUE, body |-> body]
    ELSE [exc |-> FALSE,
          body |-> json_dumps_body(
                [body.doc EXCEPT !.encoding_format =
                                    IF @ = "base64" THEN "float" ELSE @])]

Paths ==
    { <<"chat", "completions">>, <<"api", "chat", "completions">>,
      <<"embeddings">>, <<"api", "embeddings">>,
      <<"api", "api", "tags">>, <<"api">>, <<"models">> }

MessageLists ==
    { <<>>, <<ReadFile5>>, <<ReadFileInt>>,
      <<ToolCall("read_file", ArgsString("list", <<>>, "compact"))>>,
      <<ReadFile5, ToolCall("read_file", ArgsString("list", <<>>, "compact"))>> }

Docs ==
    {Doc(u, p, t, TRUE, m, "absent") :
        u \in {{}, {"prompt_cache_key"}, UnsupportedParams},
        p \in {"absent", "true", "false", "nonbool"},
        t \in {"absent", "list", "null", "function_not_dict"},
        m \in MessageLists}
    \cup {Doc(u, "absent", "absent", FALSE, <<>>, e) :
        u \in {{}, {"prompt_cache_key"}},
        e \in {"absent", "base64", "float", "other"}}

RequestBodies ==
    {Body("object", d, f) : d \in Docs, f \in {"compact", "dumps"}}
    \cup {Body(k, NoDoc, "compact") : k \in {"empty", "invalid", "array"}}

\* content-length of the inbound request: absent (chunked) or len(body)
NoHeader == 0 - 1

Requests ==
    [path : Paths, base_v1 : BOOLEAN, query : {"", "q=1"},
     body : RequestBodies, has_content_length : BOOLEAN]

NoRequest ==
    [path |-> <<>>, base_v1 |-> FALSE, query |-> "",
     body |-> Body("empty", NoDoc, "compact"), has_content_length |-> FALSE]

NoOutbound ==
    [target_path |-> <<>>, query |-> "", url |-> <<>>,
     body |-> Body("empty", NoDoc, "compact"), content_length |-> NoHeader]

\* how the try block of a rewrite ended: not entered ("skipped"), at its end
\* with body replaced ("replaced"), in its except ("failed")
NoOutcomes == [chat |-> "none", embeddings |-> "none"]

RewriteIdle ==
    /\ inbound = NoRequest
    /\ outbound = NoOutbound
    /\ wpc = "absent"
    /\ rewrite_outcome = NoOutcomes

\* lines 397-405: what is sent upstream after the try block of the chat
\* rewrite gave r
AfterChatDropsBody(out, r) ==
    IF r.exc THEN [out EXCEPT !.body = Body("empty", NoDoc, "compact")]
    ELSE [out EXCEPT !.body = r.body, !.content_length = BodyLen(r.body)]
AfterChat(out, r) ==
    IF r.exc THEN out
    ELSE [out EXCEPT !.body = r.body, !.content_length = BodyLen(r.body)]

\* lines 420-426: the same for the embeddings rewrite
AfterEmbeddingsKeepsLength(out, r) ==
    IF r.exc THEN out ELSE [out EXCEPT !.body = r.body]
AfterEmbeddings(out, r) ==
    IF r.exc THEN out
    ELSE [out EXCEPT !.body = r.body,
                     !.content_length = IF @ # NoHeader THEN BodyLen(r.body) ELSE @]

OutcomeOf(r) == IF r.exc THEN "failed" ELSE "replaced"

\* lines 188-206: target_path, query_params, headers, body
MapTarget ==
    /\ wpc = "received"
    /\ outbound' = [target_path |-> TargetPath(inbound.path, inbound.base_v1),
                    query |-> inbound.query,
                    url |-> target_url(TargetPath(inbound.path, inbound.base_v1),
                                       inbound.query),
                    body |-> inbound.body,
                    content_length |-> IF inbound.has_content_length
                                       THEN BodyLen(inbound.body) ELSE NoHeader]
    /\ wpc' = "mapped"
    /\ UNCHANGED <<inbound, rewrite_outcome, engineVars, frameVars, relayVars, nonStreamVars>>

\* lines 212-405: if "chat/completions" in path and body: try ... except
ChatStep ==
    /\ wpc = "mapped"
    /\ IF IsChatPath(inbound.path) /\ outbound.body.kind # "empty"
       THEN LET r == ChatRewrite(outbound.body) IN
            /\ outbound' = AfterChat(outbound, r)
            /\ rewrite_outcome' = [rewrite_outcome EXCEPT !.chat = OutcomeOf(r)]
       ELSE /\ outbound' = outbound
            /\ rewrite_outcome' = [rewrite_outcome EXCEPT !.chat = "skipped"]
    /\ wpc' = "chat_done"
    /\ UNCHANGED <<inbound, engineVars, frameVars, relayVars, nonStreamVars>>

\* lines 408-426: if path == "embeddings" and body: try ... except
EmbeddingsStep ==
    /\ wpc = "chat_done"
    /\ IF IsEmbeddingsPath(inbound.path) /\ outbound.body.kind # "empty"
       THEN LET r == EmbeddingsRewrite(outbound.body) IN
            /\ outbound' = AfterEmbeddings(outbound, r)
            /\ rewrite_outcome' = [rewrite_outcome EXCEPT !.embeddings = OutcomeOf(r)]
       ELSE /\ outbound' = outbound
            /\ rewrite_outcome' = [rewrite_outcome EXCEPT !.embeddings = "skipped"]
    /\ wpc' = "embeddings_done"
    /\ UNCHANGED <<inbound, engineVars, frameVars, relayVars, nonStreamVars>>

\* lines 428-435: client.build_request(...)
BuildRequest ==
    /\ wpc = "embeddings_done"
    /\ wpc' = "built"
    /\ UNCHANGED <<inbound, outbound, rewrite_outcome, engineVars, frameVars, relayVars, nonStreamVars>>

(***************************************************************************)
(* The non-streaming relay of proxy_request, lines 636-818.  A body is its *)
(* bytes by what content.decode and json.loads make of them: bytes that    *)
(* are no UTF-8 text, text that is no JSON, a JSON number, a JSON array,   *)
(* or the object {choices: [{message: {tool_calls: [...]}}]}; fmt says     *)
(* whether the text is laid out as json.dumps lays it out.                 *)
(***************************************************************************)

MaxToolCalls == 2

ResponseBody(kind, tool_calls, fmt) ==
    [kind |-> kind, tool_calls |-> tool_calls, fmt |-> fmt]

\* if response.status_code == 200 and "chat/completions" in path
RewriteApplies(resp) == resp.status_code = 200 /\ resp.chat

\* json.loads(content.decode("utf-8")) raises, or "choices" in response_json
\* does (TypeError of a number)
ParseRaises(body) == body.kind \in {"undecodable", "invalid", "number"}

\* the loop over the tool calls, lines 662-748, from the i-th on;
\* st = [tool_calls, exc]
RECURSIVE InspectToolCalls(_, _)
InspectToolCalls(st, i) ==
    IF i > Len(st.tool_calls) THEN st
    ELSE LET r == NonStreamToolCall(st.tool_calls[i]) IN
         IF r.status = "raised" THEN [st EXCEPT !.exc = TRUE]
         ELSE InspectToolCalls(
                [st EXCEPT !.tool_calls[i] = ToolCall(@.name, r.args)], i + 1)

\* lines 642-752: content after the try block
ContentAfterPartial(body) ==
    IF ParseRaises(body) THEN body
    ELSE IF body.kind = "array" THEN [body EXCEPT !.fmt = "dumps"]
    ELSE LET st == InspectToolCalls([tool_calls |-> body.tool_calls, exc |-> FALSE], 1)
         IN  ResponseBody("object", st.tool_calls, "dumps")
ContentAfter(body) ==
    IF ParseRaises(body) THEN body
    ELSE IF body.kind = "array" THEN [body EXCEPT !.fmt = "dumps"]
    ELSE LET st == InspectToolCalls([tool_calls |-> body.tool_calls, exc |-> FALSE], 1)
         IN  IF st.exc THEN body
             ELSE ResponseBody("object", st.tool_calls, "dumps")

\* the tool calls of the responses
ReadFileWord == ToolCall("read_file", ArgsString("object", <<Field("start_line", WordStr)>>, "compact"))
ReadFileInvalid == ToolCall("read_file", ArgsString("invalid", <<>>, "compact"))

ResponseToolCalls ==
    {ReadFile5, ReadFileInt, ReadFileNumber, Other5, ReadFileWord, ReadFileInvalid}

RECURSIVE ToolCallLists(_)
ToolCallLists(n) ==
    IF n = 0 THEN {<<>>}
    ELSE {<<tc>> \o l : tc \in ResponseToolCalls, l \in ToolCallLists(n - 1)}

ResponseBodies ==
    {ResponseBody(k, <<>>, "compact") : k \in {"undecodable", "invalid", "number"}}
    \cup {ResponseBody("array", <<>>, f) : f \in {"compact", "dumps"}}
    \cup {ResponseBody("object", l, f) :
            l \in UNION {ToolCallLists(n) : n \in 0..MaxToolCalls},
            f \in {"compact", "dumps"}}

\* responses whose content type is not a streaming one
Responses ==
    {[status_code |-> st, chat |-> c, stream |-> FALSE, content |-> b] :
        st \in {200, 201, 404}, c \in BOOLEAN, b \in ResponseBodies}

\* the bodies of the error responses, as bytes: empty, text, a JSON object,
\* lines ended by a newline or by CR and the newline, indented text, bytes
\* that are no UTF-8 text, an event with a tool call
ErrorBodies ==
    { <<>>,
      <<Byte("m")>>,
      <<Byte("{"), Byte("m"), Byte("}")>>,
      <<Byte("m"), NL>>,
      <<Byte("m"), Byte("cr"), NL>>,
      <<Byte("sp"), Byte("m"), NL>>,
      <<Byte("m"), NL, Byte("m")>>,
      <<Byte("bad")>>,
      <<Byte("hi"), Byte("lo")>>,
      Event(<<ToolCallText(ReadFile5)>>) \o <<NL>> }

\* responses with status >= 400, of either kind of content type
ErrorResponses ==
    {[status_code |-> st, chat |-> c, stream |-> sm, content |-> b] :
        st \in {400, 404, 429, 500, 503}, c \in BOOLEAN, sm \in BOOLEAN,
        b \in ErrorBodies}

NoResponse ==
    [status_code |-> 0, chat |-> FALSE, stream |-> FALSE,
     content |-> ResponseBody("invalid", <<>>, "compact")]

NoReply == [status_code |-> 0, content |-> ResponseBody("invalid", <<>>, "compact")]

NonStreamIdle ==
    /\ response = NoResponse
    /\ reply = NoReply
    /\ npc = "absent"

\* if is_streaming: return StreamingResponse(stream_generator(),
\* status_code=response.status_code, ...), lines 448-635
StartRelay ==
    /\ npc = "returned"
    /\ is_streaming(response)
    /\ rpc = "absent"
    /\ reply' = [reply EXCEPT !.status_code = response.status_code]
    /\ npc' = "streaming"
    /\ stream' = response.content
    /\ rpc' = "reading"
    /\ UNCHANGED <<response, pos, nchunks, buffer, emitted>>
    /\ UNCHANGED <<engineVars, frameVars, rewriteVars>>

\* else: content = await response.aread()
ReadBody ==
    /\ npc = "returned"
    /\ ~is_streaming(response)
    /\ npc' = "read"
    /\ UNCHANGED <<response, reply, engineVars, frameVars, relayVars, rewriteVars>>

\* lines 641-818: the rewrite of a 200 chat-completions body, then
\* return Response(content=content, status_code=response.status_code, ...)
RelayBody ==
    /\ npc = "read"
    /\ reply' = [status_code |-> response.status_code,
                 content |-> IF RewriteApplies(response)
                             THEN ContentAfter(response.content)
                             ELSE response.content]
    /\ npc' = "done"
    /\ UNCHANGED <<response, engineVars, frameVars, relayVars, rewriteVars>>

(***************************************************************************)
(* The loops of the three call sites over the tool calls of one document:  *)
(* the messages of a request (281-373), the event of a stream line         *)
(* (476-617), the choices of a response that is not streamed (647-748).    *)
(***************************************************************************)

\* read_file tool calls with both line fields, one of them text int() rejects
ReadFile5Word ==
    ToolCall("read_file",
             ArgsString("object", <<Field("start_line", NumStr(5)),
                                    Field("end_line", WordStr)>>, "compact"))
ReadFileWord10 ==
    ToolCall("read_file",
             ArgsString("object", <<Field("start_line", WordStr),
                                    Field("end_line", NumStr(10))>>, "compact"))

DocumentToolCalls == ResponseToolCalls \cup {ReadFile5Word, ReadFileWord10}

RECURSIVE DocumentsOf(_)
DocumentsOf(n) ==
    IF n = 0 THEN {<<>>}
    ELSE {<<tc>> \o l : tc \in DocumentToolCalls, l \in DocumentsOf(n - 1)}

Documents == UNION {DocumentsOf(n) : n \in 0..MaxToolCalls}

\* the request rewriter: on an exception the body is sent as it came (404)
RequestLoop(tcs) ==
    LET ms == RewriteMessages([exc |-> FALSE, messages |-> tcs], 1) IN
    Processed(ms.exc, IF ms.exc THEN tcs ELSE ms.messages)

\* the stream relay: the tool calls of the line yielded at 624
StreamLoop(tcs) ==
    LET line == Event([i \in DOMAIN tcs |-> ToolCallText(tcs[i])])
        st == Inspect([data |-> json_loads(data_str(line)),
                       line |-> line, exc |-> FALSE], 1)
        texts == SelectSeq(st.line, LAMBDA b : b.t = "tc")
    IN  Processed(st.exc, [i \in DOMAIN texts |-> texts[i].tc])

\* the non-streaming relay: on an exception the body is forwarded as read
\* (751)
NonStreamLoop(tcs) ==
    LET st == InspectToolCalls([tool_calls |-> tcs, exc |-> FALSE], 1) IN
    Processed(st.exc, IF st.exc THEN tcs ELSE st.tool_calls)

\* one call site meets the document
RequestDocument ==
    /\ ~processed["request"].ran
    /\ processed' = [processed EXCEPT !["request"] = RequestLoop(document)]
    /\ UNCHANGED <<frame, site_out, document>>
    /\ UNCHANGED <<engineVars, relayVars, rewriteVars, nonStreamVars>>

StreamDocument ==
    /\ ~processed["stream"].ran
    /\ processed' = [processed EXCEPT !["stream"] = StreamLoop(document)]
    /\ UNCHANGED <<frame, site_out, document>>
    /\ UNCHANGED <<engineVars, relayVars, rewriteVars, nonStreamVars>>

NonStreamDocument ==
    /\ ~processed["nonstream"].ran
    /\ processed' = [processed EXCEPT !["nonstream"] = NonStreamLoop(document)]
    /\ UNCHANGED <<frame, site_out, document>>
    /\ UNCHANGED <<engineVars, relayVars, rewriteVars, nonStreamVars>>

(***************************************************************************)
(* Specifications.                                                         *)
(***************************************************************************)
InitHandlers(active) ==
    /\ max_retries \in 0..MaxRetriesBound
    /\ pc = [r \in Handlers |-> IF r \in active THEN "send" ELSE "absent"]
    /\ attempt = [r \in Handlers |-> 0]
    /\ hist = [r \in Handlers |-> <<>>]
    /\ slept = [r \in Handlers |-> <<>>]
    /\ result = [r \in Handlers |-> NoOutcome]
    /\ relayed = [r \in Handlers |-> 0]
    /\ client_status = [r \in Handlers |-> 0]
    /\ clock_read = [r \in Handlers |-> <<>>]

\* one request
Init ==
    InitHandlers({"h1"}) /\ FramesIdle /\ RelayIdle /\ RewriteIdle /\ NonStreamIdle

Next ==
    \E r \in Handlers :
        \/ Send(r, Upstream)
        \/ Classify(r, Clock, Jitter)
        \/ Wake(r)
        \/ Respond(r)
        \/ StartStream(r)
        \/ StreamChunk(r)
        \/ StreamEnd(r)
        \/ StreamFail(r)
        \/ HandleError(r)

Spec == Init /\ [][Next]_vars

\* two requests handled concurrently
InitConcurrent ==
    InitHandlers(Handlers) /\ FramesIdle /\ RelayIdle /\ RewriteIdle /\ NonStreamIdle

Step(r) ==
    \/ Send(r, UpstreamSmall)
    \/ Classify(r, {5000}, {0})
    \/ Wake(r)
    \/ Respond(r)
    \/ StartStream(r)
    \/ StreamChunk(r)
    \/ StreamEnd(r)
    \/ StreamFail(r)
    \/ HandleError(r)

NextConcurrent == \E r \in Handlers : Step(r)

SpecConcurrent == InitConcurrent /\ [][NextConcurrent]_vars

\* one request whose upstream answers 429 with an integer header, or 200
InitHeader ==
    InitHandlers({"h1"}) /\ FramesIdle /\ RelayIdle /\ RewriteIdle /\ NonStreamIdle

NextHeader ==
    \E r \in Handlers :
        \/ Send(r, UpstreamHeaders)
        \/ Classify(r, Clock, {0})
        \/ Wake(r)
        \/ Respond(r)

SpecHeader == InitHeader /\ [][NextHeader]_vars

\* no request in the engine
EngineIdle ==
    /\ max_retries = 0
    /\ pc = [r \in Handlers |-> "absent"]
    /\ attempt = [r \in Handlers |-> 0]
    /\ hist = [r \in Handlers |-> <<>>]
    /\ slept = [r \in Handlers |-> <<>>]
    /\ result = [r \in Handlers |-> NoOutcome]
    /\ relayed = [r \in Handlers |-> 0]
    /\ client_status = [r \in Handlers |-> 0]
    /\ clock_read = [r \in Handlers |-> <<>>]

\* one tool call met by each of the three call sites
InitFrames ==
    /\ EngineIdle
    /\ RelayIdle
    /\ RewriteIdle
    /\ NonStreamIdle
    /\ frame \in ToolCalls
    /\ site_out = [s \in Sites |-> NoResult]
    /\ DocumentsIdle

NextFrames == RequestSite \/ StreamSite \/ NonStreamSite

SpecFrames == InitFrames /\ [][NextFrames]_vars

\* the relay of one upstream body
InitRelay ==
    /\ EngineIdle
    /\ FramesIdle
    /\ RewriteIdle
    /\ NonStreamIdle
    /\ stream \in UpstreamBodies
    /\ pos = 0
    /\ nchunks = 0
    /\ buffer = <<>>
    /\ emitted = <<>>
    /\ rpc = "reading"

NextRelay == RelayChunk \/ RelayEnd

SpecRelay == InitRelay /\ [][NextRelay]_vars

\* the request side of one request
InitRewrite ==
    /\ EngineIdle
    /\ FramesIdle
    /\ RelayIdle
    /\ NonStreamIdle
    /\ inbound \in Requests
    /\ outbound = NoOutbound
    /\ wpc = "received"
    /\ rewrite_outcome = NoOutcomes

NextRewrite == MapTarget \/ ChatStep \/ EmbeddingsStep \/ BuildRequest

SpecRewrite == InitRewrite /\ [][NextRewrite]_vars

\* the relay of one upstream response that is not streamed
InitNonStream ==
    /\ EngineIdle
    /\ FramesIdle
    /\ RelayIdle
    /\ RewriteIdle
    /\ response \in Responses
    /\ reply = NoReply
    /\ npc = "returned"

NextNonStream == ReadBody \/ RelayBody

SpecNonStream == InitNonStream /\ [][NextNonStream]_vars

\* the relay of one upstream response with status >= 400
InitErrorRelay ==
    /\ EngineIdle
    /\ FramesIdle
    /\ RelayIdle
    /\ RewriteIdle
    /\ response \in ErrorResponses
    /\ reply = NoReply
    /\ npc = "returned"

NextErrorRelay == StartRelay \/ RelayChunk \/ RelayEnd \/ ReadBody \/ RelayBody

SpecErrorRelay == InitErrorRelay /\ [][NextErrorRelay]_vars

\* one document of tool calls met by each of the three call sites
InitDocuments ==
    /\ EngineIdle
    /\ RelayIdle
    /\ RewriteIdle
    /\ NonStreamIdle
    /\ frame = ToolCall("other", ArgsString("empty", <<>>, "dumps"))
    /\ site_out = [s \in Sites |-> NoResult]
    /\ document \in Documents
    /\ processed = [s \in Sites |-> NoProcessed]

NextDocuments == RequestDocument \/ StreamDocument \/ NonStreamDocument

SpecDocuments == InitDocuments /\ [][NextDocuments]_vars

(***************************************************************************)
(* Properties.                                                             *)
(***************************************************************************)
N == max_retries

Last(r) == hist[r][Len(hist[r])]

\* retry_with_backoff has returned or raised
EngineDone(r) == pc[r] \in {"returned", "raised", "relay", "done", "aborted"}

\* retry_with_backoff has returned a response
EngineReturned(r) == EngineDone(r) /\ result[r].kind = "response"

\* the i-th outcome has been through the rest of its iteration
Decided(r, i) == i < Len(hist[r]) \/ (i = Len(hist[r]) /\ pc[r] # "got")

\* the i-th sleep is the jittered exponential backoff of attempt i - 1
BackoffSlept(r, i) ==
    /\ Len(slept[r]) >= i
    /\ slept[r][i] >= BASE_RETRY_DELAY * 1000 * (2 ^ (i - 1))
    /\ slept[r][i] <= BASE_RETRY_DELAY * 1000 * (2 ^ (i - 1)) + 1000

\* after the i-th outcome the engine went on to sleep and to the next attempt
WentOn(r, i) ==
    /\ i = Len(hist[r]) => pc[r] \in {"sleep", "send"}
    /\ (i = Len(hist[r]) /\ pc[r] = "send") => attempt[r] = i /\ i <= N

\* C1: func() is called at least once and at most max_retries + 1 times, whatever
\* the outcomes; the loop variable counts the calls and is never reset.
C1_AttemptBudget ==
    \A r \in Handlers :
        /\ Len(hist[r]) <= N + 1
        /\ EngineDone(r) => Len(hist[r]) >= 1
        /\ pc[r] = "send" => attempt[r] = Len(hist[r])
        /\ pc[r] \in {"got", "sleep"} => attempt[r] + 1 = Len(hist[r])

C1_Witness ==
    /\ N >= 2
    /\ EngineDone("h1")
    /\ Len(hist["h1"]) = N + 1
    /\ hist["h1"][1].kind = "RequestError"
    /\ hist["h1"][2].status = 429
    /\ hist["h1"][3].status = 503

\* C2: what retry_with_backoff returns is the response of its most recent call of
\* func(), what it raises is the error of its most recent call; never an earlier
\* outcome, never one it made up.
C2_ReturnsLatest ==
    \A r \in Handlers :
        EngineDone(r) =>
            /\ Len(hist[r]) >= 1
            /\ result[r] = Last(r)
            /\ result[r].id = Len(hist[r])
            /\ pc[r] = "returned" => result[r].kind = "response"
            /\ pc[r] = "raised" => result[r].kind \in {"RequestError", "Exception"}

C2_Witness ==
    /\ pc["h1"] = "returned"
    /\ Len(hist["h1"]) = 3
    /\ hist["h1"][1].status = 429
    /\ hist["h1"][2].status = 503
    /\ result["h1"].status = 200

\* C3: a response whose status is neither 429 nor >= 500 is returned right after
\* the attempt that produced it: no sleep and no further call of func() follows.
C3_NoRetryOfOtherStatus ==
    \A r \in Handlers : \A i \in 1..Len(hist[r]) :
        LET o == hist[r][i] IN
        (o.kind = "response" /\ o.status # 429 /\ o.status < 500) =>
            /\ i = Len(hist[r])
            /\ Len(slept[r]) = i - 1
            /\ pc[r] = "got" \/ (EngineReturned(r) /\ result[r] = o)

C3_Witness ==
    /\ pc["h1"] = "returned"
    /\ Len(hist["h1"]) = 2
    /\ result["h1"].status = 404
    /\ N = 2

\* every attempt so far returned a 429 whose body holds the lockout phrase
AllLockout(r) ==
    /\ Len(hist[r]) >= 1
    /\ \A i \in 1..Len(hist[r]) :
         hist[r][i].kind = "response" /\ hist[r][i].status = 429 /\ hist[r][i].phrase

\* the same, each body also read and decoded as UTF-8 text
AllLockoutText(r) == AllLockout(r) /\ \A i \in 1..Len(hist[r]) : hist[r][i].utf8

LockoutRun(r) ==
    /\ \A i \in 1..Len(slept[r]) : slept[r][i] = RATE_LIMIT_WAIT * 1000
    /\ EngineDone(r) =>
         /\ Len(hist[r]) = N + 1
         /\ Len(slept[r]) = N
         /\ pc[r] # "raised"
         /\ result[r] = Last(r)
         /\ result[r].status = 429

HeaderThenOk(r) ==
    /\ Len(hist[r]) >= 2
    /\ hist[r][1].kind = "response" /\ hist[r][1].status = 429
    /\ ~hist[r][1].phrase
    /\ hist[r][1].hdr = "int" /\ hist[r][1].hdr_val \in 1..3599
    /\ hist[r][2].kind = "response" /\ hist[r][2].status = 200

\* C5: after a 429 without the lockout phrase carrying the header value v,
\* 1 <= v < 3600, and a 200 on the next attempt, the engine has slept v seconds
\* once, has called func() twice and returns the 200.
C5_HeaderWaitThenSuccess ==
    \A r \in Handlers :
        HeaderThenOk(r) =>
            /\ slept[r] = <<hist[r][1].hdr_val * 1000>>
            /\ Len(hist[r]) = 2
            /\ pc[r] = "got" \/ (EngineReturned(r) /\ result[r] = hist[r][2])

C5_Witness ==
    /\ HeaderThenOk("h1")
    /\ hist["h1"][1].hdr_val = 30
    /\ slept["h1"] = <<30000>>
    /\ pc["h1"] = "returned"

\* a 429 with neither the lockout phrase nor a header that parses, or a 5xx
Generic(o) ==
    /\ o.kind = "response"
    /\ \/ o.status = 429 /\ ~o.phrase /\ o.hdr # "int"
       \/ o.status # 429 /\ o.status >= 500

\* the same, the body of the 429 read and decoded as UTF-8 text
GenericText(o) == Generic(o) /\ (o.status = 429 => o.utf8)

BackoffOrFinal(r, i) ==
    IF i <= N
    THEN BackoffSlept(r, i) /\ WentOn(r, i)
    ELSE EngineReturned(r) /\ result[r] = hist[r][i]

C7_TransportError ==
    \A r \in Handlers : \A i \in 1..Len(hist[r]) :
        (hist[r][i].kind = "RequestError" /\ Decided(r, i)) =>
            IF i <= N
            THEN BackoffSlept(r, i) /\ WentOn(r, i)
            ELSE /\ pc[r] \in {"raised", "done"}
                 /\ result[r] = hist[r][i]
                 /\ pc[r] = "done" => client_status[r] = 502

C7_Witness ==
    /\ N = 2
    /\ Len(hist["h1"]) = 3
    /\ \A i \in 1..3 : hist["h1"][i].kind = "RequestError"
    /\ Len(slept["h1"]) = 2
    /\ pc["h1"] = "done"
    /\ client_status["h1"] = 502

\* the sleeps that ran to their end
Completed(r) ==
    IF pc[r] = "sleep" THEN SubSeq(slept[r], 1, Len(slept[r]) - 1) ELSE slept[r]

\* C8: the time a request has spent in the engine, sleeps included, never exceeds
\* the request timeout TIMEOUT: no sleep runs past it and no attempt follows it.
\* (Only the sleeps that ran to their end are counted here.)
C8_WithinTimeout ==
    \A r \in Handlers : SumSeq(Completed(r)) <= TIMEOUT * 1000

\* C9: once anything of an upstream response has been handed to the client, func()
\* is not called again for that request; all attempts precede the relay.
C9_NoRetryAfterRelay ==
    /\ [](\A r \in Handlers : pc[r] \in {"send", "got", "sleep"} => relayed[r] = 0)
    /\ [][\A r \in Handlers : relayed[r] > 0 => hist'[r] = hist[r]]_vars

C9_Witness ==
    /\ pc["h1"] = "relay"
    /\ relayed["h1"] >= 1
    /\ Len(hist["h1"]) >= 2

Local(r) ==
    <<pc[r], attempt[r], hist[r], slept[r], result[r], relayed[r], client_status[r]>>

\* C10: while one handler sleeps, every other handler that has not finished can
\* take its next step, and a step of one handler leaves the attempt counter and
\* the rest of the state of every other handler as it was.
C10_SleepBlocksNobody ==
    /\ [](\A r \in Handlers : \A o \in Handlers \ {r} :
            (pc[r] = "sleep" /\ pc[o] \notin {"done", "aborted"})
                => ENABLED Step(o))
    /\ [][\A r \in Handlers : \A o \in Handlers \ {r} :
            Local(r)' # Local(r) => Local(o)' = Local(o)]_vars

C10_Witness ==
    /\ pc["h1"] = "sleep"
    /\ Len(slept["h1"]) = 1
    /\ pc["h2"] = "done"
    /\ Len(hist["h2"]) >= 2
    /\ client_status["h2"] = 200

(***************************************************************************)
(* Tool-call coercion at the three call sites (SpecFrames).                *)
(***************************************************************************)

LineKeys == {"start_line", "end_line"}

\* the arguments document has a string-typed start_line or end_line
HasStringLine(args) ==
    /\ args.kind = "object"
    /\ \E i \in DOMAIN args.fields :
            args.fields[i].key \in LineKeys /\ args.fields[i].val.ty = "str"

\* every string-typed start_line/end_line of the document is integer text
StringLinesAreIntegers(args) ==
    \A i \in DOMAIN args.fields :
        (args.fields[i].key \in LineKeys /\ args.fields[i].val.ty = "str")
            => args.fields[i].val.num

\* the document a holds the integers of the document b at start_line/end_line
\* and the fields of b, in the order of b, everywhere else
IsCoercionOf(a, b) ==
    /\ a.kind = "object" /\ b.kind = "object"
    /\ Len(a.fields) = Len(b.fields)
    /\ \A i \in DOMAIN b.fields :
            /\ a.fields[i].key = b.fields[i].key
            /\ IF b.fields[i].key \in LineKeys /\ b.fields[i].val.ty = "str"
               THEN a.fields[i].val = IntVal(b.fields[i].val.n)
               ELSE a.fields[i].val = b.fields[i].val

Ran(s) == site_out[s] # NoResult

\* C16 as stated: after the rewrite by any of the three sites, no tool call,
\* whatever its function name, has a string-typed start_line or end_line left
C16_Original ==
    \A s \in Sites : Ran(s) => ~HasStringLine(site_out[s].args)

\* C16: at each of the three sites, a tool call named read_file whose arguments
\* parse as a JSON object in which every string-typed start_line/end_line is
\* integer text has no string-typed start_line or end_line left, each having
\* become the integer; a tool call of another name, or with a string-typed
\* start_line/end_line that is not integer text, keeps its arguments string
C16_ReadFileCoerced ==
    \A s \in Sites : Ran(s) =>
        IF /\ frame.name = "read_file"
           /\ HasStringLine(frame.args)
           /\ StringLinesAreIntegers(frame.args)
        THEN /\ site_out[s].status = "ok"
             /\ site_out[s].coerced
             /\ ~HasStringLine(site_out[s].args)
             /\ IsCoercionOf(site_out[s].args, frame.args)
        ELSE /\ site_out[s].args = frame.args
             /\ ~site_out[s].coerced

C16_Witness ==
    /\ \A s \in Sites : Ran(s) /\ site_out[s].coerced
    /\ frame.name = "read_file"
    /\ \E i, j \in DOMAIN frame.args.fields :
            /\ frame.args.fields[i] = Field("start_line", NumStr(5))
            /\ frame.args.fields[j] = Field("end_line", NumStr(10))

\* C18: for every tool call the three call sites yield the same outcome: the
\* same arguments string, the same coerced/not-coerced decision, and none
\* fails where another succeeds
C18_SitesAgree ==
    \A s, t \in Sites : (Ran(s) /\ Ran(t)) => site_out[s] = site_out[t]

(***************************************************************************)
(* The stream relay (SpecRelay).                                           *)
(***************************************************************************)

Received == SubSeq(stream, 1, pos)

RelayDone == rpc = "done"

NewlineCount(bytes) == Cardinality({i \in DOMAIN bytes : bytes[i].t = "nl"})

IsPrefix(a, b) == Len(a) <= Len(b) /\ a = SubSeq(b, 1, Len(a))

\* every chunk of the body is UTF-8 text, however the body is cut
AsciiBody == \A i \in DOMAIN stream : stream[i].t \notin {"hi", "lo", "bad"}

\* the complete lines of the body, without their newline
RECURSIVE LinesOf(_)
LinesOf(bytes) ==
    IF ~HasNewline(bytes) THEN <<>>
    ELSE LET i == FirstNewline(bytes) IN
         <<SubSeq(bytes, 1, i - 1)>> \o LinesOf(SubSeq(bytes, i + 1, Len(bytes)))

ReceivedLines == LinesOf(stream)

\* the line starts with the marker 'data: '
StartsWithMarker(line) ==
    Len(line) >= 2 /\ line[1].t = "data:" /\ line[2].t = "sp"

ToolCallsOf(line) == {line[i].tc : i \in {j \in DOMAIN line : line[j].t = "tc"}}

\* a piece that is one whole line and its newline
IsOneLine(piece) ==
    /\ piece # <<>>
    /\ piece[Len(piece)] = NL
    /\ NewlineCount(piece) = 1

\* the body is one data line that carries a read_file tool call with a
\* string-typed start_line
OneToolCallLine ==
    /\ IsOneLine(stream)
    /\ StartsWithMarker(stream)
    /\ \E tc \in ToolCallsOf(stream) :
            /\ tc.name = "read_file"
            /\ \E i \in DOMAIN tc.args.fields :
                    tc.args.fields[i] = Field("start_line", NumStr(5))

\* the piece is the event with start_line as an integer
IsRewrittenEvent(piece) ==
    /\ IsOneLine(piece)
    /\ StartsWithMarker(piece)
    /\ \E tc \in ToolCallsOf(piece) :
            /\ tc.name = "read_file"
            /\ \E i \in DOMAIN tc.args.fields :
                    tc.args.fields[i] = Field("start_line", IntVal(5))
    /\ \A tc \in ToolCallsOf(piece) :
            tc.name = "read_file" => ~HasStringLine(tc.args)

\* C12: a single data line carrying a read_file tool call with a string-typed
\* start_line, cut anywhere into up to MaxRelayChunks chunks, is emitted as
\* exactly one line, the rewritten event with start_line as an integer; no
\* partial, truncated or duplicated copy is emitted
C12_OneRewrittenLine ==
    OneToolCallLine =>
        /\ Len(emitted) <= 1
        /\ \A i \in DOMAIN emitted : IsRewrittenEvent(emitted[i])
        /\ RelayDone => Len(emitted) = 1

\* a body that holds nothing the relay may rewrite or trim
PlainBody ==
    \A i \in DOMAIN stream : stream[i].t \notin {"data:", "sp", "cr"}

\* C13: the relay emits content in the order it was received, an undecodable
\* chunk that arrives while a partial line is buffered included: what has been
\* emitted of a body without data lines is a prefix of what was received and
\* in the end the whole of it, and as many newline-terminated lines are
\* emitted as were received
C13_InOrder ==
    /\ PlainBody => IsPrefix(Flatten(emitted), Received)
    /\ (RelayDone /\ PlainBody) => Flatten(emitted) = stream
    /\ RelayDone => NewlineCount(Flatten(emitted)) = NewlineCount(stream)

\* a line that is not a data line, or is the terminator
IsPassThrough(line) == ~StartsWithMarker(line) \/ line = DoneLine

\* C14: every complete line received that does not start with 'data: ', or
\* that is 'data: [DONE]', is emitted with exactly the characters received,
\* leading and trailing whitespace included, followed by the newline
C14_Verbatim ==
    (RelayDone /\ AsciiBody) =>
        /\ Len(emitted) >= Len(ReceivedLines)
        /\ \A j \in DOMAIN ReceivedLines :
                IsPassThrough(ReceivedLines[j])
                    => emitted[j] = ReceivedLines[j] \o <<NL>>

\* the members of the event of a data line
MembersOf(line) == json_loads(data_str(Strip(line)))

\* a data line whose payload is not valid JSON, or whose shape makes the
\* inspection of its tool calls fail
FailsInspection(line) ==
    /\ StartsWithMarker(Strip(line))
    /\ Strip(line) # DoneLine
    /\ \/ ~IsJson(data_str(Strip(line)))
       \/ \E tc \in ToolCallsOf(line) : tc.args.kind \in {"number"}

\* out is the event of in, member by member, each tool call as it was or
\* with its start_line/end_line as integers
IsSameEvent(out, in) ==
    /\ StartsWithMarker(out)
    /\ IsJson(data_str(out))
    /\ LET a == MembersOf(out)
           b == MembersOf(in)
       IN  /\ Len(a) = Len(b)
           /\ \A k \in DOMAIN b :
                IF b[k].t = "tc"
                THEN /\ a[k].t = "tc"
                     /\ a[k].tc.name = b[k].tc.name
                     /\ \/ a[k].tc.args = b[k].tc.args
                        \/ IsCoercionOf(a[k].tc.args, b[k].tc.args)
                ELSE a[k] = b[k]

\* the first tool call of the event is a read_file with a string-typed
\* start_line that is integer text
FirstIsReadFile5(line) ==
    LET b == MembersOf(line) IN
    /\ b # <<>>
    /\ b[1].t = "tc"
    /\ b[1].tc.name = "read_file"
    /\ HasStringLine(b[1].tc.args)
    /\ StringLinesAreIntegers(b[1].tc.args)

WithoutNewline(piece) == SubSeq(piece, 1, Len(piece) - 1)

\* the j-th piece emitted is the j-th line received: as it was, surrounding
\* whitespace apart, or the event of it rewritten where a rewrite applies
EmittedAsLine(j) ==
    LET in == ReceivedLines[j]
        out == WithoutNewline(emitted[j])
    IN  /\ IsOneLine(emitted[j])
        /\ IF StartsWithMarker(Strip(in)) /\ IsJson(data_str(Strip(in)))
           THEN /\ IsSameEvent(out, in)
                /\ FirstIsReadFile5(in) => ~HasStringLine(MembersOf(out)[1].tc.args)
           ELSE Strip(out) = Strip(in)

\* C15: a data line whose payload is not valid JSON, or whose shape makes the
\* tool-call inspection fail, does not end the relay: that line is emitted,
\* and every later line is processed, rewritten when applicable, and emitted
C15_RelayContinues ==
    (RelayDone /\ AsciiBody /\ \E i \in DOMAIN ReceivedLines : FailsInspection(ReceivedLines[i]))
        => /\ Len(emitted) >= Len(ReceivedLines)
           /\ \A j \in DOMAIN ReceivedLines : EmittedAsLine(j)

C15_Witness ==
    /\ RelayDone
    /\ nchunks = MaxRelayChunks
    /\ Len(ReceivedLines) = 2
    /\ ReceivedLines[1] = <<Byte("data:"), Byte("sp"), Byte("m")>>
    /\ ReceivedLines[2] = Event(<<ToolCallText(ReadFile5)>>)
    /\ emitted[1] = ReceivedLines[1] \o <<NL>>
    /\ IsRewrittenEvent(emitted[2])

\* a data line with a JSON event whose tool calls have no string-typed
\* start_line or end_line and pass the inspection
NeedsNoRewrite(line) ==
    /\ StartsWithMarker(line)
    /\ IsJson(data_str(line))
    /\ ToolCallsOf(line) # {}
    /\ \A tc \in ToolCallsOf(line) :
            tc.args.kind = "object" /\ ~HasStringLine(tc.args)

\* C17: in the stream relay, the event line of a tool call whose
\* start_line/end_line are already integers is not re-serialized: it is
\* emitted as received
C17_EmittedAsReceived ==
    (RelayDone /\ AsciiBody) =>
        /\ Len(emitted) >= Len(ReceivedLines)
        /\ \A j \in DOMAIN ReceivedLines :
                NeedsNoRewrite(ReceivedLines[j])
                    => emitted[j] = ReceivedLines[j] \o <<NL>>

(***************************************************************************)
(* The request side (SpecRewrite).                                         *)
(***************************************************************************)

Built == wpc = "built"

\* C19: for every chat-completions request whose body is a JSON object, the
\* body sent upstream has none of prompt_cache_key, logprobs, top_logprobs,
\* and every other top-level key of the inbound body, a non-boolean
\* parallel_tool_calls apart, is present upstream, whatever tools and
\* messages hold
C19_UnsupportedRemoved ==
    (Built /\ IsChatPath(inbound.path) /\ inbound.body.kind = "object") =>
        /\ outbound.body.kind = "object"
        /\ outbound.body.doc.unsupported = {}
        /\ outbound.body.doc.model = inbound.body.doc.model
        /\ outbound.body.doc.tools = inbound.body.doc.tools
        /\ outbound.body.doc.has_messages = inbound.body.doc.has_messages
        /\ outbound.body.doc.encoding_format = inbound.body.doc.encoding_format
        /\ inbound.body.doc.parallel_tool_calls \in {"true", "false"}
                => outbound.body.doc.parallel_tool_calls
                        = inbound.body.doc.parallel_tool_calls

\* C20: for every request with a JSON body that is forwarded to the upstream
\* embeddings path, upstream receives encoding_format "float" if the request
\* had "base64", and the value of the request otherwise
C20_Base64ToFloat ==
    (Built /\ outbound.target_path = <<"embeddings">> /\ inbound.body.kind = "object") =>
        /\ outbound.body.kind = "object"
        /\ outbound.body.doc.encoding_format =
                IF inbound.body.doc.encoding_format = "base64"
                THEN "float"
                ELSE inbound.body.doc.encoding_format

\* the try block of a rewrite of the request body ended in its except
RewriteFailed == "failed" \in {rewrite_outcome.chat, rewrite_outcome.embeddings}

\* the content-length header of the inbound request
InboundLength ==
    IF inbound.has_content_length THEN BodyLen(inbound.body) ELSE NoHeader

\* C21: when the chat-completions or the embeddings rewrite fails (body not
\* JSON, not an object, or an error while processing), the handler goes on to
\* send the request, with the body of the inbound request and the headers as
\* they were before the rewrite; nothing of a partial rewrite is forwarded
C21_FailureForwardsOriginal ==
    RewriteFailed =>
        /\ outbound.body = inbound.body
        /\ outbound.content_length = InboundLength
        /\ ~Built => ENABLED NextRewrite

C21_Witness ==
    /\ Built
    /\ rewrite_outcome.chat = "failed"
    /\ inbound.body.kind = "object"
    /\ inbound.body.doc.tools = "null"
    /\ inbound.body.doc.unsupported = UnsupportedParams
    /\ inbound.body.doc.parallel_tool_calls = "nonbool"
    /\ inbound.has_content_length
    /\ outbound.body = inbound.body

\* C27: when the chat-completions rewrite has replaced the body, the
\* content-length sent upstream is the length of the body sent upstream; when
\* the embeddings rewrite has replaced it, the same holds if the inbound
\* request had a content-length, and none is added if it had none
C27_ContentLength ==
    /\ rewrite_outcome.chat = "replaced"
            => outbound.content_length = BodyLen(outbound.body)
    /\ rewrite_outcome.embeddings = "replaced"
            => outbound.content_length =
                    IF inbound.has_content_length
                    THEN BodyLen(outbound.body) ELSE NoHeader

C27_Witness ==
    /\ Built
    /\ rewrite_outcome.embeddings = "replaced"
    /\ inbound.has_content_length
    /\ inbound.body.doc.encoding_format = "base64"
    /\ BodyLen(outbound.body) # BodyLen(inbound.body)
    /\ outbound.content_length = BodyLen(outbound.body)

\* C28: a chat-completions rewrite removes parallel_tool_calls exactly when it
\* is present with a value that is not a boolean; true and false are sent
\* upstream as they came
C28_ParallelToolCalls ==
    rewrite_outcome.chat = "replaced" =>
        LET in == inbound.body.doc.parallel_tool_calls
            out == outbound.body.doc.parallel_tool_calls
        IN  /\ in = "nonbool" => out = "absent"
            /\ in \in {"true", "false", "absent"} => out = in

C28_Witness ==
    /\ Built
    /\ rewrite_outcome.chat = "replaced"
    /\ inbound.body.doc.parallel_tool_calls = "nonbool"
    /\ outbound.body.doc.parallel_tool_calls = "absent"
    /\ inbound.body.doc.tools = "list"

TailOf(bytes) ==
    IF ~HasNewline(bytes) THEN bytes
    ELSE LET last == CHOOSE i \in DOMAIN bytes :
                        bytes[i].t = "nl" /\ \A j \in (i + 1)..Len(bytes) : bytes[j].t # "nl"
         IN  SubSeq(bytes, last + 1, Len(bytes))

LastEmitted == emitted[Len(emitted)]

\* C30: once the chunks are exhausted, buffered text that no newline ended is
\* emitted exactly once, as the final emission, as it is: no newline added,
\* nothing rewritten or trimmed; nothing is emitted at the end when the buffer
\* is empty; after each processed chunk the buffer holds no newline
C30_FinalFlush ==
    /\ ~HasNewline(buffer)
    /\ (RelayDone /\ buffer # <<>>) =>
            /\ emitted # <<>>
            /\ LastEmitted = Encoded(buffer)
    /\ (RelayDone /\ AsciiBody) =>
            /\ buffer = TailOf(stream)
            /\ Len(emitted) = Len(ReceivedLines) + (IF TailOf(stream) # <<>> THEN 1 ELSE 0)
            /\ TailOf(stream) # <<>> => LastEmitted = TailOf(stream)
            /\ \A j \in 1..Len(ReceivedLines) : IsOneLine(emitted[j])

\* an event with a string-typed start_line that no newline ended, after a
\* whole line, arrives in MaxRelayChunks chunks
C30_Witness ==
    /\ RelayDone
    /\ nchunks = MaxRelayChunks
    /\ Len(ReceivedLines) = 1
    /\ TailOf(stream) = Event(<<ToolCallText(ReadFile5)>>)
    /\ Len(emitted) = 2
    /\ LastEmitted = Event(<<ToolCallText(ReadFile5)>>)

(***************************************************************************)
(* The header-based wait (SpecHeader).                                     *)
(***************************************************************************)

\* clamp(x) = min(max(1, x), 3600)
Clamp(x) == Min(Max(1, x), 3600)

\* the wait for header value v at unix time now, in seconds
ReferenceWait(v, now) ==
    IF v > now * 1000 THEN Clamp((v \div 1000) - now)
    ELSE IF v < 3600 THEN Clamp(v)
    ELSE Clamp(v - now)

\* C23: for a 429 with integer header value v and current unix time now, the
\* wait the engine computes and sleeps is: clamp(v div 1000 - now) if
\* v > now * 1000, else clamp(v) if v < 3600, else clamp(v - now), where
\* clamp(x) = min(max(1, x), 3600)
C23_WaitIsReference ==
    \A r \in Handlers : \A k \in DOMAIN clock_read[r] :
        LET i == clock_read[r][k].id
            now == clock_read[r][k].current_time
            v == hist[r][i].hdr_val
        IN  i <= N =>
                /\ Len(slept[r]) >= i
                /\ slept[r][i] = ReferenceWait(v, now) * 1000

\* a timestamp in milliseconds read 7 s ahead of the clock, then a
\* timestamp in seconds 60 s ahead of it
C23_Witness ==
    /\ N = 2
    /\ Len(hist["h1"]) = 3
    /\ hist["h1"][1].hdr_val = 5010000
    /\ clock_read["h1"][1] = Reading(hist["h1"][1], 5003)
    /\ hist["h1"][2].hdr_val = 5060
    /\ clock_read["h1"][2] = Reading(hist["h1"][2], 5000)
    /\ slept["h1"] = <<7000, 60000>>
    /\ pc["h1"] = "returned"

\* C24: every header-based sleep of the engine lasts at least 1 second and at
\* most 3600 seconds, whatever integer the header holds: zero, a negative
\* value, a timestamp in the past
C24_HeaderSleepBounded ==
    \A r \in Handlers : \A i \in 1..Len(slept[r]) :
        ReadsClock(hist[r][i]) =>
            /\ slept[r][i] >= 1000
            /\ slept[r][i] <= 3600 * 1000

\* a negative value, then a timestamp in milliseconds more than an hour ahead
C24_Witness ==
    /\ N = 2
    /\ Len(hist["h1"]) = 3
    /\ hist["h1"][1].hdr_val < 0
    /\ hist["h1"][2].hdr_val = 9000000
    /\ hist["h1"][3].hdr_val = 3600
    /\ slept["h1"] = <<1000, 3600 * 1000>>
    /\ pc["h1"] = "done"

(***************************************************************************)
(* The order of the classification (Spec).                                 *)
(***************************************************************************)

Is429(o) == o.kind = "response" /\ o.status = 429

\* the i-th outcome was handled as the lockout case: the fixed wait and the
\* next attempt, or the return of the response when no attempt was left
LockoutHandled(r, i) ==
    IF i <= N
    THEN /\ Len(slept[r]) >= i
         /\ slept[r][i] = RATE_LIMIT_WAIT * 1000
         /\ WentOn(r, i)
    ELSE EngineReturned(r) /\ result[r] = hist[r][i]

\* the i-th outcome was handled by its header: a wait computed from the
\* header value, or the return of the response when no attempt was left
HeaderHandled(r, i) ==
    IF i <= N
    THEN /\ Len(slept[r]) >= i
         /\ \E now \in Clock :
                slept[r][i] = ReferenceWait(hist[r][i].hdr_val, now) * 1000
         /\ WentOn(r, i)
    ELSE EngineReturned(r) /\ result[r] = hist[r][i]

\* the i-th outcome was returned by the attempt that produced it
ReturnedAtOnce(r, i) ==
    /\ i = Len(hist[r])
    /\ Len(slept[r]) = i - 1
    /\ EngineReturned(r)
    /\ result[r] = hist[r][i]

\* a 429 without the lockout phrase and with a numeric header is handled by
\* its header; a status >= 500 is handled by the backoff
LowerPriorities(r, i) ==
    LET o == hist[r][i] IN
    /\ (Is429(o) /\ o.utf8 /\ ~o.phrase /\ o.hdr = "int") => HeaderHandled(r, i)
    /\ (o.kind = "response" /\ o.status # 429 /\ o.status >= 500)
            => BackoffOrFinal(r, i)

BadHeader(o) == Is429(o) /\ ~o.phrase /\ o.hdr \in {"empty", "text"}

Replied == npc = "done"

IsSuccess(resp) == resp.status_code >= 200 /\ resp.status_code < 300

\* int() rejects a line field of the tool call, or its arguments are no JSON
CoercionRejected(tc) ==
    /\ tc.name = "read_file"
    /\ \/ tc.args.kind = "invalid"
       \/ HasStringLine(tc.args) /\ ~StringLinesAreIntegers(tc.args)

\* the inspection of the tool call raises an error its own handler does not
\* catch
CoercionRaises(tc) == tc.name = "read_file" /\ tc.args.kind = "number"

HasToolCall(body, P(_)) ==
    body.kind = "object" /\ \E i \in DOMAIN body.tool_calls : P(body.tool_calls[i])

\* C22 as stated: for an upstream response with a success status the relay
\* answers the upstream status, and forwards the original body bytes when
\* the parsing of the body or the coercion of a tool call fails
C22_Original ==
    (Replied /\ IsSuccess(response)) =>
        /\ reply.status_code = response.status_code
        /\ (RewriteApplies(response)
                /\ \/ ParseRaises(response.content)
                   \/ HasToolCall(response.content, CoercionRaises)
                   \/ HasToolCall(response.content, CoercionRejected))
            => reply.content = response.content

\* the reply holds the tool calls of the body, each as it was or coerced, a
\* tool call whose coercion was rejected as it was
SameDocument(out, in) ==
    /\ out.kind = "object"
    /\ Len(out.tool_calls) = Len(in.tool_calls)
    /\ \A i \in DOMAIN in.tool_calls :
            /\ out.tool_calls[i].name = in.tool_calls[i].name
            /\ \/ out.tool_calls[i].args = in.tool_calls[i].args
               \/ /\ ~CoercionRejected(in.tool_calls[i])
                  /\ IsCoercionOf(out.tool_calls[i].args, in.tool_calls[i].args)

\* C22 amended: for an upstream response with a success status the relay
\* answers the upstream status; the original body bytes are forwarded when
\* the rewrite does not apply, when the body does not parse and when the
\* inspection of a tool call raises; when int() rejects a field of a tool
\* call or its arguments are no JSON, that tool call stays as it is and the
\* body is forwarded as json.dumps writes the document
C22_StatusKept ==
    (Replied /\ IsSuccess(response)) =>
        /\ reply.status_code = response.status_code
        /\ ~RewriteApplies(response) => reply.content = response.content
        /\ (RewriteApplies(response)
                /\ \/ ParseRaises(response.content)
                   \/ HasToolCall(response.content, CoercionRaises))
            => reply.content = response.content
        /\ (RewriteApplies(response)
                /\ response.content.kind = "object"
                /\ ~HasToolCall(response.content, CoercionRaises))
            => /\ reply.content.fmt = "dumps"
               /\ SameDocument(reply.content, response.content)

\* a tool call is coerced, then the inspection of the next one raises
C22_Witness ==
    /\ Replied
    /\ response.status_code = 200
    /\ response.chat
    /\ response.content = ResponseBody("object", <<ReadFile5, ReadFileNumber>>, "compact")
    /\ reply.content = response.content
    /\ reply.status_code = 200

(***************************************************************************)
(* The end of the loop of retry_with_backoff (Spec).                       *)
(***************************************************************************)

\* C32: the engine never sleeps after its final attempt: in a run that has
\* returned or raised there is one sleep less than there were calls of
\* func(); a sleep is followed by a new call of func(); the attempt with
\* index max_retries is followed by a return or a raise, with no sleep
C32_NoSleepAfterFinalAttempt ==
    \A r \in Handlers :
        /\ Len(slept[r]) <= N
        /\ EngineDone(r) => Len(slept[r]) = Len(hist[r]) - 1
        /\ pc[r] = "sleep" =>
                /\ Len(slept[r]) = Len(hist[r])
                /\ attempt[r] < N
        /\ pc[r] = "send" => Len(hist[r]) = Len(slept[r])
        /\ pc[r] = "got" => Len(hist[r]) = Len(slept[r]) + 1
        /\ (Len(hist[r]) = N + 1 /\ Decided(r, N + 1)) =>
                /\ pc[r] # "sleep"
                /\ EngineDone(r)
                /\ Len(slept[r]) = N

\* a transport error on every attempt: two sleeps, then the raise
C32_Witness ==
    /\ N = 2
    /\ pc["h1"] = "raised"
    /\ Len(hist["h1"]) = 3
    /\ \A i \in 1..3 : hist["h1"][i].kind = "RequestError"
    /\ Len(slept["h1"]) = 2
    /\ result["h1"].kind = "RequestError"

\* C33: whatever max_retries >= 0 and the outcomes of the attempts are, the
\* loop ends inside an iteration, by a return or by a re-raise: the error
\* 'Unexpected end of retry_with_backoff' raised after the loop is never the
\* result, and a sleep never ends the last iteration of the loop
C33_NoFallThrough ==
    \A r \in Handlers :
        /\ result[r].kind # "UnexpectedEnd"
        /\ pc[r] = "raised" => result[r].kind \in {"RequestError", "Exception"}
        /\ pc[r] = "sleep" => attempt[r] + 1 <= max_retries
        /\ pc[r] \in {"send", "got"} => attempt[r] <= max_retries

\* no retry allowed: the first response, a 429 with the lockout phrase, is
\* returned by the only iteration
C33_Witness ==
    /\ N = 0
    /\ pc["h1"] = "returned"
    /\ Len(hist["h1"]) = 1
    /\ hist["h1"][1].status = 429 /\ HasLockoutPhrase(hist["h1"][1])
    /\ slept["h1"] = <<>>
    /\ result["h1"] = hist["h1"][1]

(***************************************************************************)
(* The relay of error responses (SpecErrorRelay).                          *)
(***************************************************************************)

\* the response has been handed to the client, its body to the end
RelayFinished == npc = "done" \/ (npc = "streaming" /\ rpc = "done")

\* the bytes of the body the client has received
ClientBody == IF is_streaming(response) THEN Flatten(emitted) ELSE reply.content

\* C31: every upstream response with status >= 400 that the engine returns
\* reaches the client with the same status code and with its original body,
\* unmodified, whatever its content type and its route
C31_ErrorsUnmodified ==
    (RelayFinished /\ response.status_code >= 400) =>
        /\ reply.status_code = response.status_code
        /\ ClientBody = response.content

\* ---- C34 ----

\* the call site s has run its loop over the document
Looped(s) == processed[s].ran

\* the tool call asks for the coercion and every string-typed line is integer
\* text
CoercionAccepted(tc) ==
    /\ tc.name = "read_file"
    /\ HasStringLine(tc.args)
    /\ StringLinesAreIntegers(tc.args)

\* a string-typed start_line or end_line of the tool call is not integer text
LineRejected(tc) ==
    /\ tc.name = "read_file"
    /\ HasStringLine(tc.args)
    /\ ~StringLinesAreIntegers(tc.args)

\* C34: at each of the three call sites a tool call with a string-typed
\* start_line or end_line that is not integer text keeps its original
\* arguments string, neither field changed, and, unless another tool call
\* raises an error its handler does not catch, every other tool call of the
\* document is still processed: coerced when its lines are integer text,
\* left as it came otherwise
C34_AllOrNothing ==
    \A s \in Sites : Looped(s) =>
        /\ Len(processed[s].tool_calls) = Len(document)
        /\ \A i \in DOMAIN document :
                LineRejected(document[i]) =>
                    /\ processed[s].tool_calls[i] = document[i]
                    /\ (~processed[s].exc =>
                            \A j \in DOMAIN document :
                                LET tc == document[j]
                                    out == processed[s].tool_calls[j]
                                IN  /\ out.name = tc.name
                                    /\ IF CoercionAccepted(tc)
                                       THEN /\ IsCoercionOf(out.args, tc.args)
                                            /\ ~HasStringLine(out.args)
                                       ELSE out = tc)

\* a document whose first tool call has an end_line that is not integer text
\* and whose second is coerced, at all three sites
C34_Witness ==
    /\ document = <<ReadFile5Word, ReadFile5>>
    /\ \A s \in Sites :
            /\ Looped(s)
            /\ ~processed[s].exc
            /\ processed[s].tool_calls[1] = ReadFile5Word
            /\ processed[s].tool_calls[2].args.fields[1].val = IntVal(5)

=============================================================================
